---- MODULE Spec2Model ----
(***************************************************************************)
(* Model of the anonymization validator                                    *)
(* (src/dbt_gdpr_anonymizer/scripts/validate_anonymization.py).            *)
(*                                                                         *)
(* A run is main() from the connection attempt (line 338) to the end of    *)
(* the process.  The store is the DuckDB database the run reads: the       *)
(* catalog (which schemas hold int_services_enriched, which tables and     *)
(* text columns the marts schema holds) and the content of the enriched    *)
(* table.  A text value is a sequence of one-character strings, so that    *)
(* LIKE and the regular expressions are computed on the characters.        *)
(***************************************************************************)
EXTENDS Integers, Sequences, FiniteSets, TLC

(***************************************************************************)
(* Bounds of the model.                                                    *)
(***************************************************************************)
\* Largest number of copies of one kind of row in the enriched table.
MaxCopies == 5
\* Largest size of one organization_category group in the grouping stores.
MaxGroup == 7
\* Largest number of rows per kind in the quality stores.
MaxQRows == 2
\* Rows a column sample holds at most; stands for LIMIT 100 (line 100).
SampleLimit == 2

(***************************************************************************)
(* Program constants.                                                      *)
(***************************************************************************)
\* main passes k=5 to check_k_anonymity (line 351).
K == 5

(***************************************************************************)
(* SQL NULL / Python None, and values that may be NULL.                    *)
(***************************************************************************)
NULL == <<>>
Some(x) == <<x>>
IsNull(v) == v = NULL
Val(v) == v[1]

(***************************************************************************)
(* Text.                                                                   *)
(***************************************************************************)
ANON_DOMAIN == <<"a","n","o","n","y","m","i","z","e","d",".","g","o","u","v",".","f","r">>
\* The pattern of LIKE '%@anonymized.gouv.fr' after its leading % (line 158).
EMAIL_LIKE_SUFFIX == <<"@">> \o ANON_DOMAIN
\* The pattern of LIKE '%XX XX XX XX' after its leading % (line 178).
PHONE_LIKE_SUFFIX == <<"X","X"," ","X","X"," ","X","X"," ","X","X">>

\* s LIKE '%' || suffix: s ends with suffix.
LikeSuffix(s, suffix) ==
    /\ Len(s) >= Len(suffix)
    /\ SubSeq(s, Len(s) - Len(suffix) + 1, Len(s)) = suffix

StartsWithAt(s, i, prefix) ==
    /\ i + Len(prefix) - 1 <= Len(s)
    /\ SubSeq(s, i, i + Len(prefix) - 1) = prefix

(***************************************************************************)
(* Character classes of the regular expressions.                           *)
(***************************************************************************)
LowerSeq == <<"a","b","c","d","e","f","g","h","i","j","k","l","m",
              "n","o","p","q","r","s","t","u","v","w","x","y","z">>
UpperSeq == <<"A","B","C","D","E","F","G","H","I","J","K","L","M",
              "N","O","P","Q","R","S","T","U","V","W","X","Y","Z">>
Lower == {LowerSeq[i] : i \in DOMAIN LowerSeq}
Upper == {UpperSeq[i] : i \in DOMAIN UpperSeq}
Digit == {"0","1","2","3","4","5","6","7","8","9"}
\* \w, \s and the bracket classes of EMAIL_PATTERN (line 24).
WordChar == Lower \cup Upper \cup Digit \cup {"_"}
Space == {" ", "\t", "\n"}
LocalChar == Lower \cup Upper \cup Digit \cup {".", "_", "%", "+", "-"}
DomainChar == Lower \cup Upper \cup Digit \cup {".", "-"}
\* [A-Z|a-z]: the bar is a member of the class.
TldChar == Lower \cup Upper \cup {"|"}

\* The character at position i, or "" outside the text.
At(s, i) == IF i \in 1..Len(s) THEN s[i] ELSE ""

\* \b between positions i-1 and i.
WordBoundary(s, i) == (At(s, i - 1) \in WordChar) # (At(s, i) \in WordChar)

\* re.IGNORECASE: texts are compared after lower-casing.
LowerOf(c) ==
    IF c \in Upper
    THEN LowerSeq[CHOOSE i \in DOMAIN UpperSeq : UpperSeq[i] = c]
    ELSE c
ToLower(s) == [i \in DOMAIN s |-> LowerOf(s[i])]

\* The first position from i on that holds no white space (\s* is greedy
\* and what follows it is never white space, so this is the only parse).
RECURSIVE SkipSpace(_, _)
SkipSpace(s, i) == IF At(s, i) \in Space THEN SkipSpace(s, i + 1) ELSE i

(***************************************************************************)
(* EMAIL_PATTERN.search (lines 23-25): some run of local characters that   *)
(* starts at a word boundary, "@", a domain that does not start with       *)
(* anonymized.gouv.fr (the negative lookahead), ".", two or more letters   *)
(* (or bars) ending at a word boundary.                                    *)
(***************************************************************************)
EmailSearch(s) ==
    \E p \in 1..Len(s) :
        /\ s[p] = "@"
        /\ ~StartsWithAt(s, p + 1, ANON_DOMAIN)
        /\ \E st \in 1..(p - 1) :
              /\ \A i \in st..(p - 1) : s[i] \in LocalChar
              /\ WordBoundary(s, st)
        /\ \E q \in (p + 2)..Len(s) :
              /\ s[q] = "."
              /\ \A i \in (p + 1)..(q - 1) : s[i] \in DomainChar
              /\ \E e \in (q + 2)..Len(s) :
                    /\ \A i \in (q + 1)..e : s[i] \in TldChar
                    /\ WordBoundary(s, e + 1)

(***************************************************************************)
(* PHONE_PATTERN.search (line 29).                                         *)
(***************************************************************************)
TwoDigitsAt(s, i) == At(s, i) \in Digit /\ At(s, i + 1) \in Digit

PhoneAt(s, i) ==
    /\ StartsWithAt(s, i, <<"+", "3", "3">>)
    /\ LET a == SkipSpace(s, i + 3)
           b == SkipSpace(s, a + 1)
           c == SkipSpace(s, b + 2)
           d == SkipSpace(s, c + 2)
           e == SkipSpace(s, d + 2)
       IN  /\ At(s, a) \in (Digit \ {"0"})
           /\ TwoDigitsAt(s, b)
           /\ TwoDigitsAt(s, c)
           /\ TwoDigitsAt(s, d)
           /\ TwoDigitsAt(s, e)
           \* (?!\s*XX)
           /\ ~StartsWithAt(s, SkipSpace(s, e + 2), <<"X", "X">>)

PhoneSearch(s) == \E i \in 1..Len(s) : PhoneAt(s, i)

(***************************************************************************)
(* ADDRESS_PATTERN.search (lines 33-35), case-insensitive.                 *)
(***************************************************************************)
StreetKeywords ==
    { <<"r","u","e">>,
      <<"a","v","e","n","u","e">>,
      <<"b","o","u","l","e","v","a","r","d">>,
      <<"p","l","a","c","e">>,
      <<"i","m","p","a","s","s","e">> }

\* \d+\s+keyword\s+[\w\s]+ : a digit, white space, the keyword, one white
\* space and one more character that is a word character or white space.
AddressAt(s, i) ==
    /\ At(s, i) \in Digit
    /\ At(s, i + 1) \in Space
    /\ LET j == SkipSpace(s, i + 1)
       IN  \E kw \in StreetKeywords :
              /\ StartsWithAt(ToLower(s), j, kw)
              /\ At(s, j + Len(kw)) \in Space
              /\ At(s, j + Len(kw) + 1) \in (WordChar \cup Space)

AddressSearch(s) == \E i \in 1..Len(s) : AddressAt(s, i)

(***************************************************************************)
(* The three checks on one sampled value (lines 107-134), in the order of  *)
(* the code: the issue types the value yields.                             *)
(***************************************************************************)
EMAIL_ISSUE == "Non-anonymized email detected"
PHONE_ISSUE == "Unmasked phone number detected"
ADDRESS_ISSUE == "Precise address detected"
RuleOrder == <<EMAIL_ISSUE, PHONE_ISSUE, ADDRESS_ISSUE>>

RuleMatches(rule, s) ==
    CASE rule = EMAIL_ISSUE -> EmailSearch(s)
      [] rule = PHONE_ISSUE -> PhoneSearch(s)
      [] rule = ADDRESS_ISSUE -> AddressSearch(s)

\* A slip: "elif" for the second and third "if": the first rule that
\* matches ends the checks of the value.
RECURSIVE RulesUpTo_FirstMatchOnly(_, _)
RulesUpTo_FirstMatchOnly(s, n) ==
    IF n = 0 \/ s = <<>> THEN <<>>
    ELSE LET before == RulesUpTo_FirstMatchOnly(s, n - 1)
         IN  IF before # <<>> THEN before
             ELSE IF RuleMatches(RuleOrder[n], s) THEN <<RuleOrder[n]>> ELSE <<>>

\* The issue types of the first n rules that match value s ("if value:"
\* skips the empty text).
RECURSIVE RulesUpTo(_, _)
RulesUpTo(s, n) ==
    IF n = 0 \/ s = <<>> THEN <<>>
    ELSE RulesUpTo(s, n - 1) \o
         (IF RuleMatches(RuleOrder[n], s) THEN <<RuleOrder[n]>> ELSE <<>>)

ValueIssues(s) == RulesUpTo(s, Len(RuleOrder))

(***************************************************************************)
(* The enriched table int_services_enriched.  A row holds the columns the  *)
(* queries read; a coordinate is a whole number of thousandths of a        *)
(* degree.  A table maps each kind of row to the number of rows of that    *)
(* kind it holds.                                                          *)
(***************************************************************************)
Row(cat, email, phone, lat, lon) ==
    [ organization_category |-> cat,
      contact_email_anon    |-> email,
      contact_phone_anon    |-> phone,
      latitude_anon         |-> lat,
      longitude_anon        |-> lon ]

RECURSIVE SumOver(_, _)
SumOver(f, S) ==
    IF S = {} THEN 0
    ELSE LET x == CHOOSE y \in S : TRUE
         IN  f[x] + SumOver(f, S \ {x})

\* COUNT(*) of the rows of table t in the set of kinds R.
CountRows(t, R) == SumOver(t, R \cap DOMAIN t)

\* SUM(CASE WHEN ... THEN 1 ELSE 0 END) over the rows a WHERE clause
\* keeps: NULL when it keeps no row, else the number of rows of the case.
SumCase(t, whereRows, caseRows) ==
    IF CountRows(t, whereRows) = 0
    THEN NULL
    ELSE Some(CountRows(t, whereRows \cap caseRows))

\* (result[1] / result[0] * 100) if result[0] > 0 else 0, as the exact
\* fraction num/den (lines 170, 190, 210).
SuccessRate(compliant, total) ==
    IF total > 0
    THEN [num |-> Val(compliant) * 100, den |-> total]
    ELSE [num |-> 0, den |-> 1]

\* x * 100 = FLOOR(x * 100) for x in thousandths (lines 198-199).
RoundedToHundredths(x) == x % 10 = 0

\* The e-mail query and metrics["emails"] (lines 154-171).
EmailMetric(t) ==
    LET kept == {r \in DOMAIN t : ~IsNull(r.contact_email_anon)}
        like == {r \in kept : LikeSuffix(Val(r.contact_email_anon), EMAIL_LIKE_SUFFIX)}
        total == CountRows(t, kept)
        proper == SumCase(t, kept, like)
    IN  [ total |-> total,
          properly_anonymized |-> proper,
          improperly_anonymized |-> SumCase(t, kept, kept \ like),
          success_rate |-> SuccessRate(proper, total) ]

\* The phone query and metrics["phones"] (lines 174-191).
PhoneMetric(t) ==
    LET kept == {r \in DOMAIN t : ~IsNull(r.contact_phone_anon)}
        like == {r \in kept : LikeSuffix(Val(r.contact_phone_anon), PHONE_LIKE_SUFFIX)}
        total == CountRows(t, kept)
        proper == SumCase(t, kept, like)
    IN  [ total |-> total,
          properly_masked |-> proper,
          improperly_masked |-> SumCase(t, kept, kept \ like),
          success_rate |-> SuccessRate(proper, total) ]

\* The coordinates query and metrics["coordinates"] (lines 193-211).
CoordinatesMetric(t) ==
    LET kept == {r \in DOMAIN t :
                    ~IsNull(r.latitude_anon) /\ ~IsNull(r.longitude_anon)}
        rounded == {r \in kept :
                    /\ RoundedToHundredths(Val(r.latitude_anon))
                    /\ RoundedToHundredths(Val(r.longitude_anon))}
        total == CountRows(t, kept)
        proper == SumCase(t, kept, rounded)
    IN  [ total |-> total,
          properly_rounded |-> proper,
          success_rate |-> SuccessRate(proper, total) ]

\* check_anonymization_quality (lines 142-213): the metrics dictionary.
check_anonymization_quality(t) ==
    [ emails |-> EmailMetric(t),
      phones |-> PhoneMetric(t),
      coordinates |-> CoordinatesMetric(t) ]

\* The count display_results shows as "Properly anonymized" (lines 288-291).
Compliant(m) ==
    IF "properly_anonymized" \in DOMAIN m THEN m.properly_anonymized
    ELSE IF "properly_masked" \in DOMAIN m THEN m.properly_masked
    ELSE IF "properly_rounded" \in DOMAIN m THEN m.properly_rounded
    ELSE Some(0)

(***************************************************************************)
(* The query of check_k_anonymity (lines 229-243).                         *)
(***************************************************************************)
\* GROUP BY organization_category: the keys (NULL is a key) of the rows.
GroupKeys(t) == {r.organization_category : r \in {x \in DOMAIN t : t[x] > 0}}
GroupSize(t, key) == CountRows(t, {r \in DOMAIN t : r.organization_category = key})

\* A slip: a group of exactly k rows is selected too.
SmallGroup_AtMost(size, k) == size <= k

\* WHERE group_size < k: the rows <<key, size>> the query selects.
SmallGroup(size, k) == size < k
SmallGroups(t, k) ==
    {<<key, GroupSize(t, key)>> : key \in {g \in GroupKeys(t) : SmallGroup(GroupSize(t, g), k)}}

\* ORDER BY group_size ASC: every arrangement of the rows G in which no
\* row precedes a smaller one (rows of equal size come in any order).
RECURSIVE AscendingOrders(_)
AscendingOrders(G) ==
    IF G = {} THEN {<<>>}
    ELSE LET least == {g \in G : \A h \in G : g[2] <= h[2]}
         IN  UNION { {<<g>> \o rest : rest \in AscendingOrders(G \ {g})} : g \in least }

KQueryResults(t, k) == AscendingOrders(SmallGroups(t, k))

\* A change: the fetched rows are handed back with the boolean.
KReturn_WithGroups(result) == [satisfied |-> result = <<>>, groups |-> result]

\* What check_k_anonymity hands back for the fetched rows (lines 245-250):
\* the components of the returned value.
KReturn(result) == [satisfied |-> result = <<>>]

(***************************************************************************)
(* The marts schema of the catalog: a sequence of tables in the order the  *)
(* catalog lists them, each with its columns; a column holds its declared  *)
(* type and the set of its distinct non-NULL values.                       *)
(***************************************************************************)
Column(name, type, values) ==
    [column_name |-> name, data_type |-> type, values |-> values]
MartsTable(name, columns) == [table_name |-> name, columns |-> columns]

\* data_type IN ('VARCHAR', 'TEXT') (line 90).
IsTextColumn(c) == c.data_type \in {"VARCHAR", "TEXT"}
TextColumns(tbl) == SelectSeq(tbl.columns, IsTextColumn)

Min(a, b) == IF a <= b THEN a ELSE b

\* Every sequence of n distinct members of S.
RECURSIVE Arrangements(_, _)
Arrangements(S, n) ==
    IF n = 0 THEN {<<>>}
    ELSE UNION { {<<v>> \o rest : rest \in Arrangements(S \ {v}, n - 1)} : v \in S }

\* A slip: the query hands back one value fewer than the limit.
Samples_OneShort(values) ==
    Arrangements(values, Min(SampleLimit - 1, Cardinality(values)))

\* SELECT DISTINCT ... WHERE ... IS NOT NULL LIMIT (lines 96-101): without
\* ORDER BY the store may hand back any of the values, in any order.
Samples(values) == Arrangements(values, Min(SampleLimit, Cardinality(values)))

\* The tuple the scanner appends (lines 110-134).
Finding(table_name, col_name, issue) == <<<<"marts", table_name>>, col_name, issue>>

ToFindings(table_name, col_name, kinds) ==
    [i \in DOMAIN kinds |-> Finding(table_name, col_name, kinds[i])]

\* The issue types of the first n values of a sample.
RECURSIVE SampleIssues(_, _)
SampleIssues(sample, n) ==
    IF n = 0 THEN <<>>
    ELSE SampleIssues(sample, n - 1) \o ValueIssues(sample[n])

(***************************************************************************)
(* The verdict and the exit status (lines 356-364).  main holds issues,    *)
(* metrics and k_anonymity_ok when it decides.                             *)
(***************************************************************************)
\* A slip: a success rate below 100% fails the run too.
Verdict_NeedsFullQuality(iss, met, k_ok) ==
    IF \/ iss # <<>>
       \/ ~k_ok
       \/ \E c \in DOMAIN met :
             met[c].success_rate.num < 100 * met[c].success_rate.den
    THEN "FAILED" ELSE "PASSED"

\* A slip: "and" for "or" in the test of line 357.
Verdict_BothNeeded(iss, met, k_ok) ==
    IF iss # <<>> /\ ~k_ok THEN "FAILED" ELSE "PASSED"

\* A slip: a run whose quality queries counted no e-mail does not pass.
Verdict_FailsOnEmptyTable(iss, met, k_ok) ==
    IF iss # <<>> \/ ~k_ok \/ met.emails.total = 0 THEN "FAILED" ELSE "PASSED"

Verdict(iss, met, k_ok) ==
    IF iss # <<>> \/ ~k_ok THEN "FAILED" ELSE "PASSED"

\* A slip: sys.exit(0) in both branches.
ExitCodeOf_AlwaysZero(v) == 0

ExitCodeOf(v) == IF v = "PASSED" THEN 0 ELSE 1

\* A log message with the number it reports (0 when it reports none).
Log(message, n) == <<message, n>>

\* duckdb.connect(settings.duckdb_path, read_only=True) (line 340).
ConnectMode == "read_only"

(***************************************************************************)
(* State.                                                                  *)
(***************************************************************************)
VARIABLES
    enrichedSchemas,  \* store: the schemas that hold int_services_enriched
    enriched,         \* store: the rows of int_services_enriched
    martsCatalog,     \* store: the tables of schema marts
    pc,               \* where the run is
    conn,             \* "none", "open" or "closed"
    connMode,         \* the mode the connection was opened in
    connects,         \* number of successful duckdb.connect calls
    closes,           \* number of conn.close() calls
    schema,           \* main: schema (NULL until get_schema returns)
    issues,           \* main: issues (NULL until the scanner returns)
    metrics,          \* main: metrics (NULL until the assessor returns)
    k_anonymity_ok,   \* main: what check_k_anonymity handed back, or NULL
    found,            \* check_no_pii_in_marts: its local list issues
    tIdx,             \* check_no_pii_in_marts: index of the current table
    cIdx,             \* check_no_pii_in_marts: index of the current column
    kGroups,          \* check_k_anonymity: the rows its query fetched
    report,           \* what display_results was given, or NULL
    verdict,          \* "none", "PASSED" or "FAILED"
    exit_code,        \* the status given to sys.exit, or NULL
    started,          \* the stages started so far, in order
    raised,           \* the stage and the call whose exception reached
                      \* main's handler (NotRaised when none did)
    warned,           \* the columns of the logger.warning calls (line 137)
    visited,          \* the columns whose try block (line 103) was entered
    logged,           \* the other log messages written
    previous,         \* what the previous run on this store ended with
                      \* (NULL in the first run)
    http_retries,     \* download: settings.datagouv.http_retries
    fpc,              \* download: where the download command is
    attempt,          \* fetch_dataset_info: the loop variable
    gets,             \* fetch_dataset_info: number of client.get calls
    responses,        \* fetch_dataset_info: how each call ended, in order
    fetch_result,     \* how fetch_dataset_info ended ("pending" until then)
    dataset_info,     \* the metadata it returned, or NULL
    warnings,         \* the attempt numbers of its logger.warning calls
    download_exit     \* the status the download command ended with, or NULL

storeVars == <<enrichedSchemas, enriched, martsCatalog>>
connVars == <<conn, connMode, connects, closes>>
scanVars == <<found, tIdx, cIdx, warned, visited>>
resultVars == <<schema, issues, metrics, k_anonymity_ok, kGroups>>
endVars == <<report, verdict>>
validatorVars == <<storeVars, connVars, scanVars, resultVars, endVars,
                   exit_code, pc, started, raised, logged, previous>>
fetchVars == <<http_retries, fpc, attempt, gets, responses, fetch_result,
               dataset_info, warnings, download_exit>>
vars == <<validatorVars, fetchVars>>

(***************************************************************************)
(* The stores the runs are checked on.                                     *)
(***************************************************************************)
EmailAnon == <<"a","b","@">> \o ANON_DOMAIN
EmailRaw == <<"j","@","m",".","f","r">>
PhoneMasked == <<"+","3","3"," ","1"," ">> \o PHONE_LIKE_SUFFIX
PhoneRaw == <<"+","3","3"," ","1"," ","2","3"," ","4","5"," ","6","7"," ","8","9">>
VCommune == <<"P","a","r","i","s">>
VEmail == EmailRaw
VEmailAddress == EmailRaw \o <<" ","1","2"," ","r","u","e"," ","X">>
VEmpty == <<>>

\* A row anonymized as expected, and one that is not, of the same category.
RowGood == Row(Some("A"), Some(EmailAnon), Some(PhoneMasked), Some(48860), Some(2350))
RowBad == Row(Some("A"), Some(EmailRaw), Some(PhoneRaw), Some(48857), Some(2352))
\* Rows with NULLs and half-rounded coordinates.
RowNoPhone == Row(Some("B"), Some(EmailRaw), NULL, Some(48860), Some(2352))
RowNoEmail == Row(Some("B"), NULL, Some(PhoneMasked), NULL, Some(2350))
RowNulls == Row(NULL, NULL, NULL, Some(48860), NULL)
\* One row of a category, for the groupings.
RowOf(cat) == Row(cat, Some(EmailAnon), Some(PhoneMasked), Some(48860), Some(2350))
Categories == {Some("A"), Some("B"), Some("C"), NULL}

EmptyTable == [r \in {} |-> 0]
MainTables == [{RowGood, RowBad} -> 0..MaxCopies]
QualityTables == [{RowGood, RowBad, RowNoPhone, RowNoEmail, RowNulls} -> 0..MaxQRows]
GroupTables == [{RowOf(c) : c \in Categories} -> 0..MaxGroup]

NoMarts == <<>>
\* One column with more distinct values than a sample holds.
OneColumnMarts ==
    << MartsTable("services",
           <<Column("contact", "VARCHAR", {VCommune, VEmail, PhoneRaw})>>) >>
TwoTableMarts ==
    << MartsTable("services",
           << Column("city", "VARCHAR", {VCommune, VEmpty}),
              Column("n", "INTEGER", {}),
              Column("contact", "TEXT", {VCommune, VEmailAddress}) >>),
       MartsTable("stats", <<Column("phone", "VARCHAR", {PhoneRaw})>>) >>
\* E-mail addresses at another domain, at the anonymization domain, and
\* at a longer domain that starts with the anonymization domain.
JeanDupont == <<"j","e","a","n",".","d","u","p","o","n","t","@">>
VMairie == JeanDupont \o <<"m","a","i","r","i","e",".","f","r">>
VAnonymized == JeanDupont \o ANON_DOMAIN
VLongerDomain == JeanDupont \o ANON_DOMAIN \o <<".","e","v","i","l",".","c","o","m">>
EmailMarts ==
    << MartsTable("contacts",
           << Column("email", "VARCHAR", {VAnonymized, VLongerDomain}),
              Column("reply_to", "VARCHAR", {VMairie}),
              Column("address", "TEXT", {VEmailAddress}) >>) >>
MainCatalogs == {NoMarts, OneColumnMarts, TwoTableMarts, EmailMarts}

NotRaised == <<"none", "none">>

\* The download command is not run.
FetchIdle ==
    /\ http_retries = 0 /\ fpc = "idle" /\ attempt = 0 /\ gets = 0
    /\ responses = <<>> /\ fetch_result = "pending" /\ dataset_info = NULL
    /\ warnings = <<>> /\ download_exit = NULL

(***************************************************************************)
(* Init: main has parsed its arguments and is about to connect (line 338). *)
(***************************************************************************)
RunInit ==
    /\ pc = "connect"
    /\ conn = "none" /\ connMode = "none" /\ connects = 0 /\ closes = 0
    /\ schema = NULL /\ issues = NULL /\ metrics = NULL
    /\ k_anonymity_ok = NULL /\ kGroups = NULL
    /\ found = <<>> /\ tIdx = 0 /\ cIdx = 0 /\ warned = {} /\ visited = <<>>
    /\ report = NULL /\ verdict = "none" /\ exit_code = NULL
    /\ started = <<>> /\ raised = NotRaised /\ logged = {}

\* The stores: every catalog with a small enriched table (none when no
\* schema holds the table), and an empty marts schema with every table of
\* the quality and grouping families.
Init ==
    /\ \/ /\ enrichedSchemas \in {{}, {"main"}, {"main", "staging"}}
          /\ enriched \in (IF enrichedSchemas = {} THEN {EmptyTable} ELSE MainTables)
          /\ martsCatalog \in MainCatalogs
       \/ /\ enrichedSchemas = {"main"}
          /\ enriched \in (QualityTables \cup GroupTables)
          /\ martsCatalog = NoMarts
    /\ RunInit
    /\ previous = NULL
    /\ FetchIdle

(***************************************************************************)
(* main: the connection (lines 338-344).                                   *)
(***************************************************************************)
Connect ==
    /\ pc = "connect"
    /\ \/ /\ conn' = "open"
          /\ connMode' = ConnectMode
          /\ connects' = connects + 1
          /\ logged' = logged \cup {Log("Connected", 0)}
          /\ pc' = "get_schema"
          /\ UNCHANGED exit_code
       \/ \* duckdb.connect raises: logger.error, sys.exit(1) outside the try
          /\ logged' = logged \cup {Log("Unable to connect to DuckDB", 0)}
          /\ exit_code' = Some(1)
          /\ pc' = "done"
          /\ UNCHANGED <<conn, connMode, connects>>
    /\ UNCHANGED <<storeVars, previous, fetchVars, closes, scanVars, resultVars, endVars, started, raised>>

\* A slip: the handler logs the exception and leaves out sys.exit(1), so
\* the process ends with status 0.
Raise_NoExit(stage, call) ==
    /\ raised' = <<stage, call>>
    /\ logged' = logged \cup {Log("Error during validation", 0)}
    /\ exit_code' = Some(0)
    /\ pc' = "finally"

\* An exception raised by a call of a stage reaches "except Exception"
\* (lines 366-368): logger.exception, sys.exit(1); the finally clause
\* runs next.
Raise(stage, call) ==
    /\ raised' = <<stage, call>>
    /\ logged' = logged \cup {Log("Error during validation", 0)}
    /\ exit_code' = Some(1)
    /\ pc' = "finally"

(***************************************************************************)
(* get_schema (lines 43-57), called at line 348.                           *)
(***************************************************************************)
\* A slip: the else branch logs the error and returns None.
TableNotFound_Returns ==
    /\ logged' = logged \cup {Log("Table int_services_enriched not found in any schema", 0)}
    /\ pc' = "list_tables"
    /\ UNCHANGED <<schema, exit_code>>

\* The else branch (lines 55-57): logger.error, sys.exit(1); SystemExit is
\* no Exception, so only the finally clause of main runs.
TableNotFound ==
    /\ logged' = logged \cup {Log("Table int_services_enriched not found in any schema", 0)}
    /\ exit_code' = Some(1)
    /\ pc' = "finally"
    /\ UNCHANGED schema

GetSchema ==
    /\ pc = "get_schema"
    /\ started' = Append(started, "RESOLVE_SCHEMA")
    /\ \/ \* fetchone() hands back one of the rows
          /\ \E s \in enrichedSchemas : schema' = Some(s)
          /\ pc' = "list_tables"
          /\ UNCHANGED <<exit_code, raised, logged>>
       \/ \* fetchone() hands back None
          /\ enrichedSchemas = {}
          /\ TableNotFound
          /\ UNCHANGED raised
       \/ \* the query raises
          /\ Raise("RESOLVE_SCHEMA", "catalog query")
          /\ UNCHANGED schema
    /\ UNCHANGED <<storeVars, previous, fetchVars, connVars, scanVars, issues, metrics,
                   k_anonymity_ok, kGroups, endVars>>

(***************************************************************************)
(* check_no_pii_in_marts (lines 60-139), called at line 349.               *)
(***************************************************************************)
\* The loop over marts_tables: the next table, or the return statement.
TableLoopPc(i) == IF i <= Len(martsCatalog) THEN "list_columns" ELSE "scan_return"

\* Lines 67-78: the list of the marts tables.
ListTables ==
    /\ pc = "list_tables"
    /\ started' = Append(started, "SCAN_PII")
    /\ \/ /\ tIdx' = 1
          /\ pc' = TableLoopPc(1)
          /\ UNCHANGED <<exit_code, raised, logged>>
       \/ \* the query raises: nothing in the scanner catches it
          /\ Raise("SCAN_PII", "tables query")
          /\ UNCHANGED tIdx
    /\ UNCHANGED <<storeVars, previous, fetchVars, connVars, found, cIdx, warned, visited, resultVars, endVars>>

\* Lines 80-92: the text columns of the current table.
ListColumns ==
    /\ pc = "list_columns"
    /\ \/ /\ IF TextColumns(martsCatalog[tIdx]) = <<>>
             THEN /\ tIdx' = tIdx + 1
                  /\ pc' = TableLoopPc(tIdx + 1)
                  /\ UNCHANGED cIdx
             ELSE /\ cIdx' = 1
                  /\ pc' = "scan_column"
                  /\ UNCHANGED tIdx
          /\ UNCHANGED <<exit_code, raised, logged>>
       \/ \* the query raises outside the try of line 103
          /\ Raise("SCAN_PII", "columns query")
          /\ UNCHANGED <<tIdx, cIdx>>
    /\ UNCHANGED <<storeVars, previous, fetchVars, connVars, found, warned, visited, resultVars, endVars, started>>

\* A slip: the try block is inside the loop over the values, so after an
\* error the other checks of the column are still made.
LoopFindings_GoesOnAfterError(table_name, col_name, sample, at, rule) ==
    ToFindings(table_name, col_name, SampleIssues(sample, Len(sample)))

\* What the loop over the samples appended when it stopped at rule `rule`
\* of value number `at` (at = Len(sample) + 1: the loop ran to its end).
LoopFindings(table_name, col_name, sample, at, rule) ==
    ToFindings(table_name, col_name,
        SampleIssues(sample, at - 1) \o
        (IF at <= Len(sample) THEN RulesUpTo(sample[at], rule - 1) ELSE <<>>))

\* The except clause of lines 136-137: the warning, and the loop over the
\* columns goes on.
CatchColumnError(table_name, col_name) ==
    warned' = warned \cup {<<table_name, col_name>>}

\* A slip: the try block encloses the loop over the columns, so an error
\* ends the scan of the table.
ColumnLoopStep_StopsOnError(errored) ==
    IF ~errored /\ cIdx < Len(TextColumns(martsCatalog[tIdx]))
    THEN /\ cIdx' = cIdx + 1
         /\ UNCHANGED <<tIdx, pc>>
    ELSE /\ tIdx' = tIdx + 1
         /\ cIdx' = 0
         /\ pc' = TableLoopPc(tIdx + 1)

\* The step to the next column, the next table or the return statement;
\* it is the same whether or not the column raised.
ColumnLoopStep(errored) ==
    IF cIdx < Len(TextColumns(martsCatalog[tIdx]))
    THEN /\ cIdx' = cIdx + 1
         /\ UNCHANGED <<tIdx, pc>>
    ELSE /\ tIdx' = tIdx + 1
         /\ cIdx' = 0
         /\ pc' = TableLoopPc(tIdx + 1)

\* Lines 94-137: one column.
ScanColumn ==
    /\ pc = "scan_column"
    /\ LET tbl == martsCatalog[tIdx]
           col == TextColumns(tbl)[cIdx]
       IN  /\ visited' = Append(visited, <<tbl.table_name, col.column_name>>)
           /\ \/ \* the sample query raises
                 /\ CatchColumnError(tbl.table_name, col.column_name)
                 /\ UNCHANGED found
                 /\ ColumnLoopStep(TRUE)
              \/ \E sample \in Samples(col.values) :
                    \/ \* every value is checked
                       /\ found' = found \o LoopFindings(tbl.table_name,
                                       col.column_name, sample, Len(sample) + 1, 1)
                       /\ UNCHANGED warned
                       /\ ColumnLoopStep(FALSE)
                    \/ \* checking a rule on a value raises
                       \E at \in 1..Len(sample), rule \in DOMAIN RuleOrder :
                          /\ sample[at] # <<>>
                          /\ found' = found \o LoopFindings(tbl.table_name,
                                          col.column_name, sample, at, rule)
                          /\ CatchColumnError(tbl.table_name, col.column_name)
                          /\ ColumnLoopStep(TRUE)
    /\ UNCHANGED <<storeVars, previous, fetchVars, connVars, resultVars, endVars, exit_code,
                   started, raised, logged>>

\* A slip: the call of line 350 is left out and main goes on with the
\* k-anonymity check.
ScanReturn_SkipsQuality ==
    /\ pc = "scan_return"
    /\ issues' = Some(found)
    /\ pc' = "k_anonymity"
    /\ UNCHANGED <<storeVars, previous, fetchVars, connVars, scanVars, schema, metrics, k_anonymity_ok,
                   kGroups, endVars, exit_code, started, raised, logged>>

\* Line 139 and the assignment of line 349.
ScanReturn ==
    /\ pc = "scan_return"
    /\ issues' = Some(found)
    /\ pc' = "quality"
    /\ UNCHANGED <<storeVars, previous, fetchVars, connVars, scanVars, schema, metrics, k_anonymity_ok,
                   kGroups, endVars, exit_code, started, raised, logged>>

(***************************************************************************)
(* check_anonymization_quality (lines 142-213), called at line 350.        *)
(***************************************************************************)
AssessQuality ==
    /\ pc = "quality"
    /\ started' = Append(started, "ASSESS_QUALITY")
    /\ \/ /\ metrics' = Some(check_anonymization_quality(enriched))
          /\ pc' = "k_anonymity"
          /\ UNCHANGED <<exit_code, raised, logged>>
       \/ \* one of the three queries raises
          /\ Raise("ASSESS_QUALITY", "quality query")
          /\ UNCHANGED metrics
    /\ UNCHANGED <<storeVars, previous, fetchVars, connVars, scanVars, schema, issues, k_anonymity_ok,
                   kGroups, endVars>>

(***************************************************************************)
(* check_k_anonymity (lines 216-250), called at line 351.                  *)
(***************************************************************************)
CheckKAnonymity ==
    /\ pc = "k_anonymity"
    /\ started' = Append(started, "CHECK_K_ANONYMITY")
    /\ \/ \E result \in KQueryResults(enriched, K) :
             /\ kGroups' = Some(result)
             /\ logged' = logged \cup
                   {IF result # <<>>
                    THEN Log("groups with less than k individuals", Len(result))
                    ELSE Log("All groups comply with k-anonymity", 0)}
             /\ k_anonymity_ok' = Some(KReturn(result))
             /\ pc' = "report"
             /\ UNCHANGED <<exit_code, raised>>
       \/ \* the query raises
          /\ Raise("CHECK_K_ANONYMITY", "groups query")
          /\ UNCHANGED <<k_anonymity_ok, kGroups>>
    /\ UNCHANGED <<storeVars, previous, fetchVars, connVars, scanVars, schema, issues, metrics, endVars>>

(***************************************************************************)
(* main: display_results and the exit code (lines 353-364).                *)
(***************************************************************************)
Report ==
    /\ pc = "report"
    /\ started' = Append(started, "REPORT")
    /\ \/ LET v == Verdict(Val(issues), Val(metrics), Val(k_anonymity_ok).satisfied)
          IN  /\ report' = Some([ findings |-> Val(issues),
                                  metrics |-> Val(metrics),
                                  k_anonymity_ok |-> Val(k_anonymity_ok).satisfied ])
              /\ verdict' = v
              /\ exit_code' = Some(ExitCodeOf(v))
              /\ pc' = "finally"
              /\ UNCHANGED <<raised, logged>>
       \/ \* writing to the console raises
          /\ Raise("REPORT", "display_results")
          /\ UNCHANGED <<report, verdict>>
    /\ UNCHANGED <<storeVars, previous, fetchVars, connVars, scanVars, resultVars>>

(***************************************************************************)
(* main: the finally clause (lines 369-370), then the process ends with    *)
(* the status given to sys.exit.                                           *)
(***************************************************************************)
\* A slip: no finally clause, the connection is left open.
CloseConnection_Missing == UNCHANGED <<conn, closes>>

CloseConnection ==
    /\ conn' = "closed"
    /\ closes' = closes + 1

Finally ==
    /\ pc = "finally"
    /\ CloseConnection
    /\ pc' = "done"
    /\ UNCHANGED <<storeVars, previous, fetchVars, connMode, connects, scanVars, resultVars, endVars,
                   exit_code, started, raised, logged>>

\* What is kept of a run that displayed its report, to compare the next
\* run with: the report, the verdict and the columns that logged an error.
Outcome == [report |-> Val(report), verdict |-> verdict, warned |-> warned]

\* The command is run once more on the same store: a new process starts
\* at line 338 with nothing of the previous one but the store.
RunAgain ==
    /\ pc = "done"
    /\ report # NULL
    /\ previous = NULL
    /\ previous' = Some(Outcome)
    /\ pc' = "connect"
    /\ conn' = "none" /\ connMode' = "none" /\ connects' = 0 /\ closes' = 0
    /\ schema' = NULL /\ issues' = NULL /\ metrics' = NULL
    /\ k_anonymity_ok' = NULL /\ kGroups' = NULL
    /\ found' = <<>> /\ tIdx' = 0 /\ cIdx' = 0 /\ warned' = {} /\ visited' = <<>>
    /\ report' = NULL /\ verdict' = "none" /\ exit_code' = NULL
    /\ started' = <<>> /\ raised' = NotRaised /\ logged' = {}
    /\ UNCHANGED <<storeVars, fetchVars>>

Next ==
    \/ Connect
    \/ GetSchema
    \/ ListTables
    \/ ListColumns
    \/ ScanColumn
    \/ ScanReturn
    \/ AssessQuality
    \/ CheckKAnonymity
    \/ Report
    \/ Finally

Spec == Init /\ [][Next]_vars

(***************************************************************************)
(* Two runs of the command on one store.                                   *)
(***************************************************************************)
\* A column of three values, one of them an e-mail address: a sample may
\* or may not hold the address.
WideMarts ==
    << MartsTable("services",
           <<Column("contact", "VARCHAR", {VCommune, VEmpty, VEmail})>>) >>
\* A column of two values that both match a rule.
PairMarts ==
    << MartsTable("services",
           <<Column("contact", "VARCHAR", {VEmail, PhoneRaw})>>) >>
TwiceCatalogs == {OneColumnMarts, WideMarts, PairMarts}
TwiceTables == [{RowGood, RowBad} -> {0, 1, MaxCopies}]

InitTwice ==
    /\ enrichedSchemas \in {{"main"}, {"main", "staging"}}
    /\ enriched \in TwiceTables
    /\ martsCatalog \in TwiceCatalogs
    /\ RunInit
    /\ previous = NULL
    /\ FetchIdle

NextTwice ==
    \/ Next
    \/ RunAgain

SpecTwice == InitTwice /\ [][NextTwice]_vars

(***************************************************************************)
(* scripts/download_data.py: fetch_dataset_info (lines 40-63) and the      *)
(* first step of its caller main (lines 204-216, 249-252).                 *)
(***************************************************************************)
\* The largest retry count configured (the default of settings.py is 3).
MaxRetries == 3
\* http_retries is an int field without a lower bound (settings.py line
\* 28): zero and negative counts can be configured.
RetrySettings == -1..MaxRetries

\* The decoded metadata: its title and the formats of its resources.
Metadata ==
    { [title |-> Some("Annuaire"), formats |-> {"json", "csv"}],
      [title |-> NULL, formats |-> {"csv"}],
      [title |-> NULL, formats |-> {}] }

\* httpx.HTTPError: client.get fails (a transport error) or
\* raise_for_status rejects the status of the response.
HTTPErrors == {"TransportError", "HTTPStatusError"}

InitFetch ==
    /\ enrichedSchemas = {} /\ enriched = EmptyTable /\ martsCatalog = NoMarts
    /\ RunInit
    /\ previous = NULL
    /\ http_retries \in RetrySettings
    /\ fpc = "fetch" /\ attempt = 0 /\ gets = 0
    /\ responses = <<>> /\ fetch_result = "pending" /\ dataset_info = NULL
    /\ warnings = <<>> /\ download_exit = NULL

\* Lines 43-48: the client is opened and the loop over
\* range(http_retries) takes its next value, or is exhausted: the function
\* ends without a return statement and hands back None.
LoopHead ==
    /\ fpc \in {"fetch", "next"}
    /\ LET a == IF fpc = "fetch" THEN 0 ELSE attempt + 1
       IN  IF a < http_retries
           THEN /\ attempt' = a
                /\ fpc' = "get"
                /\ UNCHANGED fetch_result
           ELSE /\ fetch_result' = "returned_none"
                /\ fpc' = "main"
                /\ UNCHANGED attempt
    /\ UNCHANGED <<validatorVars, http_retries, gets, responses, dataset_info,
                   warnings, download_exit>>

\* Lines 49-55: one GET; the metadata is returned, or response.json()
\* raises an error that is no httpx.HTTPError and leaves the function, or
\* an httpx.HTTPError goes to the except clause.
Get ==
    /\ fpc = "get"
    /\ gets' = gets + 1
    /\ \/ \E data \in Metadata :
             /\ responses' = Append(responses, "ok")
             /\ dataset_info' = Some(data)
             /\ fetch_result' = "returned_data"
             /\ fpc' = "main"
       \/ /\ responses' = Append(responses, "JSONDecodeError")
          /\ fetch_result' = "raised_other"
          /\ fpc' = "main"
          /\ UNCHANGED dataset_info
       \/ \E e \in HTTPErrors :
             /\ responses' = Append(responses, e)
             /\ fpc' = "except"
             /\ UNCHANGED <<dataset_info, fetch_result>>
    /\ UNCHANGED <<validatorVars, http_retries, attempt, warnings, download_exit>>

\* Lines 57-63: the warning; after the last attempt the error is raised
\* again, otherwise the loop goes on.
HandleHTTPError ==
    /\ fpc = "except"
    /\ warnings' = Append(warnings, attempt + 1)
    /\ IF attempt = http_retries - 1
       THEN /\ fetch_result' = "raised_http"
            /\ fpc' = "main"
       ELSE /\ fpc' = "next"
            /\ UNCHANGED fetch_result
    /\ UNCHANGED <<validatorVars, http_retries, attempt, gets, responses,
                   dataset_info, download_exit>>

\* main, lines 204-216 and 249-252: an exception of fetch_dataset_info,
\* and the AttributeError of None.get, reach "except Exception" and end
\* the command with status 1; so does metadata without a JSON resource;
\* otherwise main goes on to download the resource.
DownloadMain ==
    /\ fpc = "main"
    /\ IF fetch_result = "returned_data" /\ "json" \in Val(dataset_info).formats
       THEN /\ fpc' = "download"
            /\ UNCHANGED download_exit
       ELSE /\ fpc' = "ended"
            /\ download_exit' = Some(1)
    /\ UNCHANGED <<validatorVars, http_retries, attempt, gets, responses,
                   fetch_result, dataset_info, warnings>>

NextFetch ==
    \/ LoopHead
    \/ Get
    \/ HandleHTTPError
    \/ DownloadMain

SpecFetch == InitFetch /\ [][NextFetch]_vars

(***************************************************************************)
(* Properties.                                                             *)
(***************************************************************************)
SchemaMissing == enrichedSchemas = {}
FourStagesComplete == k_anonymity_ok # NULL
KSatisfied == Val(k_anonymity_ok).satisfied
StageNames == {"SCAN_PII", "ASSESS_QUALITY", "CHECK_K_ANONYMITY"}

\* C1: a verdict is reached only when all four stages completed, a run in
\* which they completed and nothing raised ends with a verdict, and the
\* verdict is PASSED exactly when the findings list is empty and the
\* k-anonymity check returned satisfied.
C1_VerdictIffNoFindingsAndK ==
    /\ verdict # "none" =>
          /\ FourStagesComplete
          /\ (verdict = "PASSED") <=> (Val(issues) = <<>> /\ KSatisfied)
          /\ (verdict = "FAILED") <=> (Val(issues) # <<>> \/ ~KSatisfied)
          /\ Val(report).findings = Val(issues)
    /\ (pc = "done" /\ FourStagesComplete /\ raised = NotRaised) =>
          verdict \in {"PASSED", "FAILED"}

\* C1 witness: no finding, k-anonymity unsatisfied, verdict FAILED.
C1_Witness ==
    /\ pc = "done"
    /\ verdict = "FAILED"
    /\ Val(issues) = <<>>
    /\ ~KSatisfied

C3_ConnectionClosedOnce ==
    /\ connects <= 1
    /\ closes <= connects
    /\ conn # "none" => connMode = "read_only"
    /\ (conn = "none") <=> (connects = 0)
    /\ pc = "done" => (closes = connects /\ conn # "open")
    /\ closes = 1 => (pc = "done" /\ conn = "closed")

\* C3 witness: the run that get_schema ended with sys.exit closed its
\* connection.
C3_Witness ==
    /\ pc = "done"
    /\ SchemaMissing
    /\ raised = NotRaised
    /\ connects = 1
    /\ closes = 1

\* C4: when no schema holds int_services_enriched, schema resolution is
\* the only stage ever started and it is started once; no findings,
\* metrics, k-anonymity outcome, report or verdict exist; the run goes
\* straight to its end with status 1.
C4_MissingTableAborts ==
    (SchemaMissing /\ started # <<>>) =>
       /\ started = <<"RESOLVE_SCHEMA">>
       /\ pc \in {"finally", "done"}
       /\ exit_code = Some(1)
       /\ schema = NULL /\ issues = NULL /\ metrics = NULL
       /\ k_anonymity_ok = NULL /\ kGroups = NULL
       /\ found = <<>> /\ visited = <<>>
       /\ report = NULL /\ verdict = "none"

\* C4 witness: the run ended after get_schema found no row.
C4_Witness ==
    /\ pc = "done"
    /\ SchemaMissing
    /\ raised = NotRaised
    /\ Log("Table int_services_enriched not found in any schema", 0) \in logged
    /\ exit_code = Some(1)

\* The stage that raised, when a stage after schema resolution did.
StageRaised == raised[1] \in StageNames

\* C5 as stated: after an exception in SCAN_PII, ASSESS_QUALITY or
\* CHECK_K_ANONYMITY the remaining stages still run and the run ends with
\* a PASSED or FAILED verdict.
C5_Original ==
    (pc = "done" /\ StageRaised) =>
       /\ StageNames \subseteq {started[i] : i \in DOMAIN started}
       /\ verdict \in {"PASSED", "FAILED"}

\* C5 amended: an exception that escapes SCAN_PII, ASSESS_QUALITY or
\* CHECK_K_ANONYMITY is logged and ends the run: the stage that raised is
\* the last one started, its result and those of the later stages are
\* never assigned, no report or verdict is produced, and the exit status
\* is 1.
C5_StageExceptionAborts ==
    StageRaised =>
       /\ Log("Error during validation", 0) \in logged
       /\ started[Len(started)] = raised[1]
       /\ pc \in {"finally", "done"}
       /\ exit_code = Some(1)
       /\ report = NULL /\ verdict = "none"
       /\ k_anonymity_ok = NULL
       /\ raised[1] \in {"SCAN_PII", "ASSESS_QUALITY"} => metrics = NULL
       /\ raised[1] = "SCAN_PII" => issues = NULL

\* C5 witness: the quality stage raised after the scanner had returned
\* findings; the run ended without a verdict.
C5_Witness ==
    /\ pc = "done"
    /\ raised[1] = "ASSESS_QUALITY"
    /\ issues # NULL
    /\ Val(issues) # <<>>
    /\ verdict = "none"

\* The text columns of the marts schema in the order the loops meet them.
RECURSIVE ColumnsFrom(_, _)
ColumnsFrom(catalog, i) ==
    IF i > Len(catalog) THEN <<>>
    ELSE [j \in DOMAIN TextColumns(catalog[i]) |->
             <<catalog[i].table_name, TextColumns(catalog[i])[j].column_name>>]
         \o ColumnsFrom(catalog, i + 1)
AllTextColumns == ColumnsFrom(martsCatalog, 1)

ValuesOf(table_name, col_name) ==
    LET tbl == martsCatalog[CHOOSE i \in DOMAIN martsCatalog :
                               martsCatalog[i].table_name = table_name]
        cols == tbl.columns
    IN  cols[CHOOSE j \in DOMAIN cols : cols[j].column_name = col_name].values

\* The findings of one column, in the order they were appended.
FindingsOf(list, table_name, col_name) ==
    SelectSeq(list, LAMBDA f : f[1] = <<"marts", table_name>> /\ f[2] = col_name)

\* What a column yields when every value of some sample is checked, and
\* what it yields when the check stops at some rule of some value.
FullScans(table_name, col_name) ==
    { ToFindings(table_name, col_name, SampleIssues(s, Len(s))) :
         s \in Samples(ValuesOf(table_name, col_name)) }
CutScans(table_name, col_name) ==
    {<<>>} \cup
    UNION { { ToFindings(table_name, col_name,
                 SampleIssues(s, at - 1) \o RulesUpTo(s[at], r)) :
              at \in DOMAIN s, r \in 0..(Len(RuleOrder) - 1) } :
            s \in Samples(ValuesOf(table_name, col_name)) }

\* C6 as stated: a failure of the column listing of a table, of a sample
\* query or of the check of a value never escapes the scanner.
C6_Original ==
    raised[1] = "SCAN_PII" =>
       raised[2] \notin {"columns query", "sample query", "value check"}

\* C6 amended: a failure of the sample query of a column or of the check
\* of one of its values is caught and logged, and the scan goes on: when
\* the scanner returns, every text column of every marts table has been
\* visited, every column without an error has all the findings of its
\* sample, a column with an error keeps the findings appended before the
\* error, and the list is handed to main; only a failure of the table
\* listing or of a column listing escapes the scanner.
C6_ColumnErrorsIsolated ==
    /\ raised[1] = "SCAN_PII" => raised[2] \in {"tables query", "columns query"}
    /\ warned \subseteq {visited[i] : i \in DOMAIN visited}
    /\ \A i \in DOMAIN visited : visited[i] = AllTextColumns[i]
    /\ issues # NULL =>
          /\ visited = AllTextColumns
          /\ Val(issues) = found
    /\ \A i \in DOMAIN visited :
          LET fs == FindingsOf(found, visited[i][1], visited[i][2])
          IN  IF visited[i] \in warned
              THEN fs \in CutScans(visited[i][1], visited[i][2])
              ELSE fs \in FullScans(visited[i][1], visited[i][2])
    /\ \A i \in DOMAIN found :
          \E j \in DOMAIN visited : found[i][1] = <<"marts", visited[j][1]>>
                                    /\ found[i][2] = visited[j][2]

\* C6 witness: the scanner returned; the first column raised, the second
\* raised after a value had matched and keeps that finding, and the column
\* of the next table was scanned in full.
C6_Witness ==
    /\ issues # NULL
    /\ warned = {<<"services", "city">>, <<"services", "contact">>}
    /\ Val(issues) = << Finding("services", "contact", EMAIL_ISSUE),
                        Finding("stats", "phone", PHONE_ISSUE) >>

\* Metrics with success rates of 0%, 50% and 100%, and of an empty table.
MetricsVariants ==
    {check_anonymization_quality(t) : t \in [{RowGood, RowBad} -> {0, 1}]}

\* C7: the verdict and the exit status are those of the findings and the
\* k-anonymity outcome alone: whatever metrics main held, the decision of
\* lines 356-364 would have been the one the run took.
C7_VerdictIgnoresMetrics ==
    verdict # "none" =>
       /\ Val(report).metrics = Val(metrics)
       /\ \A m \in MetricsVariants \cup {Val(metrics)} :
             /\ Verdict(Val(issues), m, KSatisfied) = verdict
             /\ Some(ExitCodeOf(Verdict(Val(issues), m, KSatisfied))) = exit_code

\* C7 witness: every e-mail of the table is improperly anonymized (success
\* rate 0% of a non-zero total) and the run PASSED.
C7_Witness ==
    /\ pc = "done"
    /\ verdict = "PASSED"
    /\ exit_code = Some(0)
    /\ Val(metrics).emails.total > 0
    /\ Val(metrics).emails.success_rate.num = 0

MetricNames == {"emails", "phones", "coordinates"}

\* C8: each of the three metrics has a count of compliant records with
\* 0 <= compliant <= total, and a success rate in [0, 100] that equals
\* compliant / total * 100 when total > 0 and 0 when total = 0.
C8_MetricBounds ==
    metrics # NULL =>
       \A c \in MetricNames :
          LET m == Val(metrics)[c]
              rate == m.success_rate
          IN  /\ ~IsNull(Compliant(m))
              /\ 0 <= Val(Compliant(m))
              /\ Val(Compliant(m)) <= m.total
              /\ rate.den > 0
              /\ 0 <= rate.num
              /\ rate.num <= 100 * rate.den
              /\ m.total > 0 => rate.num * m.total = Val(Compliant(m)) * 100 * rate.den
              /\ m.total = 0 => rate.num = 0

\* C9: check_k_anonymity is satisfied exactly when every group has at
\* least K rows; the rows it fetched are one per group of fewer than K
\* rows, each with the size of its group, in ascending order of size.
C9_KAnonymity ==
    k_anonymity_ok # NULL =>
       LET res == Val(kGroups)
           sizes == [key \in GroupKeys(enriched) |->
                        CountRows(enriched,
                           {r \in DOMAIN enriched : r.organization_category = key})]
       IN  /\ KSatisfied <=> \A key \in DOMAIN sizes : sizes[key] >= K
           /\ KSatisfied <=> res = <<>>
           /\ {res[i] : i \in DOMAIN res} =
                 {<<key, sizes[key]>> : key \in {g \in DOMAIN sizes : sizes[g] < K}}
           /\ \A i, j \in DOMAIN res : i < j =>
                 (res[i] # res[j] /\ res[i][2] <= res[j][2])

\* C9 witness: groups of sizes 3, 7, 5 and 2 with K = 5: not satisfied,
\* the groups of sizes 2 and 3 fetched in that order.
C9_Witness ==
    /\ k_anonymity_ok # NULL
    /\ enriched = [r \in {RowOf(c) : c \in Categories} |->
                      CASE r.organization_category = Some("A") -> 3
                        [] r.organization_category = Some("B") -> 7
                        [] r.organization_category = Some("C") -> 5
                        [] r.organization_category = NULL -> 2]
    /\ ~KSatisfied
    /\ Val(kGroups) = << <<NULL, 2>>, <<Some("A"), 3>> >>

\* C10 as stated: what check_k_anonymity hands back to main holds the
\* boolean and the list of the violating groups.
C10_Original ==
    k_anonymity_ok # NULL =>
       /\ "satisfied" \in DOMAIN Val(k_anonymity_ok)
       /\ "groups" \in DOMAIN Val(k_anonymity_ok)
       /\ Val(k_anonymity_ok).groups = Val(kGroups)

\* C10 amended: check_k_anonymity hands back the boolean alone; the
\* violating groups stay inside it, only their number is logged, and the
\* report main displays holds the boolean.
C10_ReturnsBooleanOnly ==
    k_anonymity_ok # NULL =>
       /\ DOMAIN Val(k_anonymity_ok) = {"satisfied"}
       /\ KSatisfied = (Val(kGroups) = <<>>)
       /\ Val(kGroups) # <<>> =>
             Log("groups with less than k individuals", Len(Val(kGroups))) \in logged
       /\ report # NULL => Val(report).k_anonymity_ok = KSatisfied

\* C10 witness: two groups violate k-anonymity and main has displayed its
\* report.
C10_Witness ==
    /\ report # NULL
    /\ Len(Val(kGroups)) = 2
    /\ Val(report).k_anonymity_ok = FALSE

\* The rules that match a value, each tested on its own, in the order
\* of the code.
MatchingRules(s) == SelectSeq(RuleOrder, LAMBDA rule : s # <<>> /\ RuleMatches(rule, s))

\* The sequences of a sequence of sequences, one after the other.
RECURSIVE Flatten(_)
Flatten(seqs) ==
    IF seqs = <<>> THEN <<>>
    ELSE Flatten(SubSeq(seqs, 1, Len(seqs) - 1)) \o seqs[Len(seqs)]

\* One finding per matching rule of every value of a sample, value after
\* value.
ExhaustiveFindings(table_name, col_name, sample) ==
    ToFindings(table_name, col_name,
        Flatten([i \in DOMAIN sample |-> MatchingRules(sample[i])]))

IsPrefix(a, b) == Len(a) <= Len(b) /\ SubSeq(b, 1, Len(a)) = a

\* C11: the findings of a column scanned without error are, for the
\* values of its sample one after the other, one finding per rule that
\* matches the value, in the order email, phone, address (a value matching
\* n rules yields n findings, whatever the other rules and the earlier
\* values yielded); those of a column that raised are a prefix of such a
\* list; and the findings list holds the findings of the columns in the
\* order the columns were visited (table, then column).
C11_ExhaustiveRulesInOrder ==
    /\ \A i \in DOMAIN visited :
          LET fs == FindingsOf(found, visited[i][1], visited[i][2])
          IN  \E sample \in Samples(ValuesOf(visited[i][1], visited[i][2])) :
                 LET all == ExhaustiveFindings(visited[i][1], visited[i][2], sample)
                 IN  IF visited[i] \in warned THEN IsPrefix(fs, all) ELSE fs = all
    /\ found = Flatten([i \in DOMAIN visited |->
                           FindingsOf(found, visited[i][1], visited[i][2])])
    /\ issues # NULL => Val(issues) = found

\* C11 witness: no column raised; one value of services.contact matched
\* the email rule and the address rule and yielded two findings, in that
\* order, before the finding of the column of the next table.
C11_Witness ==
    /\ issues # NULL
    /\ warned = {}
    /\ MatchingRules(VEmailAddress) = <<EMAIL_ISSUE, ADDRESS_ISSUE>>
    /\ Val(issues) = << Finding("services", "contact", EMAIL_ISSUE),
                        Finding("services", "contact", ADDRESS_ISSUE),
                        Finding("stats", "phone", PHONE_ISSUE) >>

\* No text column of the marts schema holds more distinct non-NULL values
\* than the sample query hands back.
NoColumnTruncated ==
    \A i \in DOMAIN AllTextColumns :
       Cardinality(ValuesOf(AllTextColumns[i][1], AllTextColumns[i][2])) <= SampleLimit

AsSet(list) == {list[i] : i \in DOMAIN list}

\* Both the previous run and this one displayed a report, and neither
\* logged a column error.
TwoCleanReports ==
    /\ previous # NULL
    /\ report # NULL
    /\ warned = {}
    /\ Val(previous).warned = {}

\* C12 as stated: two runs on an unchanged store that both display a
\* report display the same set of findings, the same metrics, the same
\* k-anonymity outcome and reach the same verdict, whatever the store
\* holds.
C12_Original ==
    TwoCleanReports =>
       /\ AsSet(Val(report).findings) = AsSet(Val(previous).report.findings)
       /\ Val(report).metrics = Val(previous).report.metrics
       /\ Val(report).k_anonymity_ok = Val(previous).report.k_anonymity_ok
       /\ verdict = Val(previous).verdict

\* C12 amended: of two runs on an unchanged store that both display a
\* report without a logged column error, the metrics and the k-anonymity
\* outcome are the same when one schema holds the enriched table; the set
\* of findings is the same when no text column holds more distinct values
\* than the sample bound (their order may differ); and under both
\* conditions the verdict is the same.
C12_RepeatableWhenSampleComplete ==
    TwoCleanReports =>
       /\ Cardinality(enrichedSchemas) = 1 =>
             /\ Val(report).metrics = Val(previous).report.metrics
             /\ Val(report).k_anonymity_ok = Val(previous).report.k_anonymity_ok
       /\ NoColumnTruncated =>
             AsSet(Val(report).findings) = AsSet(Val(previous).report.findings)
       /\ (Cardinality(enrichedSchemas) = 1 /\ NoColumnTruncated) =>
             verdict = Val(previous).verdict

\* C12 witness: two clean runs on a store whose column fits the sample;
\* the findings came in a different order and are the same set.
C12_Witness ==
    /\ TwoCleanReports
    /\ NoColumnTruncated
    /\ Cardinality(enrichedSchemas) = 1
    /\ Val(report).findings # Val(previous).report.findings
    /\ AsSet(Val(report).findings) = AsSet(Val(previous).report.findings)
    /\ verdict = "FAILED"

\* A well-formed e-mail address around the "@" at position p: what it
\* takes for a local part to end at p - 1, and the positions at which a
\* domain that starts at p + 1 can end.
LocalPartBefore(s, p) ==
    \E st \in 1..(p - 1) :
        /\ \A i \in st..(p - 1) : s[i] \in LocalChar
        /\ WordBoundary(s, st)
DomainEnds(s, p) ==
    { e \in (p + 1)..Len(s) :
        \E q \in (p + 2)..(e - 2) :
            /\ s[q] = "."
            /\ \A i \in (p + 1)..(q - 1) : s[i] \in DomainChar
            /\ \A i \in (q + 1)..e : s[i] \in TldChar
            /\ WordBoundary(s, e + 1) }
Max(S) == CHOOSE x \in S : \A y \in S : y <= x

\* The value holds a well-formed e-mail address whose domain (all of it)
\* is not anonymized.gouv.fr.
HoldsForeignEmail(s) ==
    \E p \in 1..Len(s) :
        /\ s[p] = "@"
        /\ LocalPartBefore(s, p)
        /\ DomainEnds(s, p) # {}
        /\ SubSeq(s, p + 1, Max(DomainEnds(s, p))) # ANON_DOMAIN

\* C13: a column scanned in full without error has an e-mail finding
\* exactly when one of its values holds a well-formed e-mail address whose
\* domain is not anonymized.gouv.fr; an address at mairie.fr is flagged,
\* one at anonymized.gouv.fr is not, and one at a longer domain that
\* starts with anonymized.gouv.fr is flagged.
C13_EmailRule ==
    /\ EmailSearch(VMairie)
    /\ ~EmailSearch(VAnonymized)
    /\ \A i \in DOMAIN visited :
          LET table_name == visited[i][1]
              col_name == visited[i][2]
              values == ValuesOf(table_name, col_name)
          IN  (visited[i] \notin warned /\ Cardinality(values) <= SampleLimit) =>
                 ( Finding(table_name, col_name, EMAIL_ISSUE) \in AsSet(found)
                   <=> \E v \in values : HoldsForeignEmail(v) )

\* The stages in the order of lines 348-354.
StageOrder ==
    <<"RESOLVE_SCHEMA", "SCAN_PII", "ASSESS_QUALITY", "CHECK_K_ANONYMITY", "REPORT">>

\* What main holds once the stage of that number has completed.
StageCompleted(n) ==
    CASE n = 1 -> schema # NULL
      [] n = 2 -> issues # NULL
      [] n = 3 -> metrics # NULL
      [] n = 4 -> k_anonymity_ok # NULL
      [] n = 5 -> report # NULL

\* The stages started are the first stages of the order, each once, and
\* all but the last of them have completed; no report or verdict exists
\* unless the first four stages completed and REPORT started.
StagesSoFar ==
    /\ Len(started) <= Len(StageOrder)
    /\ started = SubSeq(StageOrder, 1, Len(started))
    /\ \A n \in 1..(Len(started) - 1) : StageCompleted(n)
    /\ \A n \in 1..Len(StageOrder) : StageCompleted(n) => Len(started) >= n
    /\ (report # NULL \/ verdict # "none") =>
          /\ \A n \in 1..4 : StageCompleted(n)
          /\ started = StageOrder
    /\ started # <<>> => connects = 1

\* A step that starts a stage starts the next stage of the order, with the
\* connection open before and after it; once the connection is closed no
\* stage starts.
StageStart ==
    started' # started =>
       /\ Len(started) < Len(StageOrder)
       /\ started' = Append(started, StageOrder[Len(started) + 1])
       /\ \A n \in 1..Len(started) : StageCompleted(n)
       /\ conn = "open"
       /\ conn' = "open"
       /\ closes = 0

\* C14: within one run the stages start in the order RESOLVE_SCHEMA,
\* SCAN_PII, ASSESS_QUALITY, CHECK_K_ANONYMITY, REPORT, each at most once
\* and each after the previous one completed, none before the connection
\* is open or after it is closed; report and verdict exist only after the
\* first four stages completed.
C14_StagesInOrder == []StagesSoFar /\ [][StageStart]_vars

\* C14 witness: a run that started the five stages, displayed its report
\* and closed its connection.
C14_Witness ==
    /\ pc = "done"
    /\ started = StageOrder
    /\ report # NULL
    /\ verdict # "none"
    /\ closes = 1

\* The findings a step appended to the scanner's list.
Appended == SubSeq(found', Len(found) + 1, Len(found'))

\* A step in which a column logs an error: the list keeps what it held,
\* and what the step appended is what the checks of that column yielded
\* before the error (nothing when the sample query failed), nothing after.
ErrorStep ==
    warned' # warned =>
       LET col == visited'[Len(visited')]
       IN  /\ warned' = warned \cup {col}
           /\ IsPrefix(found, found')
           /\ Appended \in CutScans(col[1], col[2])

\* C15 as stated: when the scanner returns, its list holds no finding of
\* a column that logged an error.
C15_Original ==
    issues # NULL =>
       \A col \in warned : FindingsOf(Val(issues), col[1], col[2]) = <<>>

\* C15 amended: the except clause removes nothing: the findings appended
\* for a column before its error stay in the list, no finding is appended
\* for it after the error, and the list is returned with them.
C15_ErroredColumnKeepsEarlierFindings ==
    /\ [](issues # NULL => Val(issues) = found)
    /\ [][ErrorStep]_vars
    /\ [][pc = "scan_column" => IsPrefix(found, found')]_vars

\* C15 witness: the only column raised after its e-mail address had
\* matched; the finding is in the list the scanner returned and the run
\* FAILED on it.
C15_Witness ==
    /\ pc = "done"
    /\ martsCatalog = OneColumnMarts
    /\ warned = {<<"services", "contact">>}
    /\ Val(issues) = <<Finding("services", "contact", EMAIL_ISSUE)>>
    /\ verdict = "FAILED"

\* The target table was found, it has no row, and the run went through
\* its stages to the end without an exception reaching main's handler.
EmptyTableRunEnded ==
    /\ pc = "done"
    /\ schema # NULL
    /\ raised = NotRaised
    /\ \A r \in DOMAIN enriched : enriched[r] = 0
\* Every text column of the marts schema logged an error (none did when
\* the schema has no table or no text column).
OnlyErroredColumns == AsSet(AllTextColumns) \subseteq warned

\* C16 as stated: when the target table exists and is empty and the marts
\* schema has no table, no text column or only columns whose scan raised,
\* the findings list is empty, k-anonymity is satisfied and the run ends
\* PASSED with status 0.
C16_Original ==
    (EmptyTableRunEnded /\ OnlyErroredColumns) =>
       /\ Val(issues) = <<>>
       /\ KSatisfied
       /\ verdict = "PASSED"
       /\ exit_code = Some(0)

\* C16 amended: a run on an empty target table that reaches its end has
\* k-anonymity satisfied with no group fetched; its findings list is empty
\* when the marts schema has no text column; and it ends PASSED with
\* status 0 exactly when its findings list is empty, whatever columns
\* logged an error; a FAILED run always has a finding or unsatisfied
\* k-anonymity.
C16_EmptyStorePasses ==
    /\ EmptyTableRunEnded =>
          /\ KSatisfied
          /\ Val(kGroups) = <<>>
          /\ AllTextColumns = <<>> => Val(issues) = <<>>
          /\ (Val(issues) = <<>>) <=> (verdict = "PASSED" /\ exit_code = Some(0))
    /\ verdict = "FAILED" => (Val(issues) # <<>> \/ ~KSatisfied)

\* C16 witness: the table is empty, every column of the marts schema
\* logged an error, nothing was found and the run PASSED with status 0.
C16_Witness ==
    /\ EmptyTableRunEnded
    /\ AllTextColumns # <<>>
    /\ OnlyErroredColumns
    /\ Val(issues) = <<>>
    /\ KSatisfied
    /\ verdict = "PASSED"
    /\ exit_code = Some(0)

\* The attempts fetch_dataset_info may make for the configured count.
AllowedAttempts == IF http_retries > 0 THEN http_retries ELSE 0
Returned == fetch_result \in {"returned_data", "returned_none"}

\* C17: fetch_dataset_info makes at most http_retries GET attempts; it
\* returns at the first successful attempt with the decoded metadata and
\* makes no attempt after it; when every attempt failed with an HTTP
\* error it raises after the last one; and it never returns to its caller
\* without metadata.
C17_FetchRetries ==
    /\ gets <= AllowedAttempts
    /\ gets = Len(responses)
    /\ \A i \in DOMAIN responses : responses[i] = "ok" => i = Len(responses)
    /\ fetch_result = "returned_data" =>
          /\ dataset_info # NULL
          /\ responses # <<>>
          /\ responses[Len(responses)] = "ok"
    /\ fetch_result = "raised_http" =>
          /\ gets = http_retries
          /\ \A i \in DOMAIN responses : responses[i] \in HTTPErrors
          /\ warnings = [i \in 1..http_retries |-> i]
    /\ (gets = http_retries /\ fpc \in {"main", "download", "ended"}
        /\ \A i \in DOMAIN responses : responses[i] \in HTTPErrors) =>
          fetch_result = "raised_http"
    /\ Returned => dataset_info # NULL

====
